---- MODULE Spec2Model ----
(***************************************************************************)
(* A model of package sequence (kybin/sequence): Range, Seq, Splitter, the *)
(* pre-defined formatters and Manager, translated from src/unnamed/part_000*)
(* (the current version of the package).                                   *)
(*                                                                         *)
(* A Go string is a sequence of bytes; it is modelled as a sequence of     *)
(* one-character strings, ordered by ByteOf.  A Go int is a signed machine *)
(* word; it is modelled as a signed word of IntBits bits that wraps.       *)
(***************************************************************************)
EXTENDS Integers, Sequences, FiniteSets, TLC

VARIABLES
    rng,        \* Range harness: the *Range under test
    rngCall,    \* Range harness: the last NewRange/Extend call
    frames,     \* Seq.frames of the Seq under test (a set: map[int]struct{})
    seqCall,    \* Seq harness: the last AddFrame/Ranges/String call
    fname,      \* Splitter harness: the file name under test
    splitCall,  \* Splitter harness: the last Split call
    fmtArgs,    \* formatter harness: the (pre, digits, post) under test
    fmtCall,    \* formatter harness: the last formatter call
    Seqs,       \* Manager.Seqs: identity -> frame set of its *Seq
    splitter,   \* Manager.splitter: which regular expression it holds
    formatting, \* Manager.formatting: which formatter it holds
    mgrCall,    \* Manager harness: the last Add/SeqNames/String call
    batch,      \* batch harness: the set of file names to ingest
    pending     \* batch harness: the file names not yet passed to Add

vars == <<rng, rngCall, frames, seqCall, fname, splitCall, fmtArgs, fmtCall,
          Seqs, splitter, formatting, mgrCall, batch, pending>>

rangeVars == <<rng, rngCall>>
seqVars == <<frames, seqCall>>
splitVars == <<fname, splitCall>>
fmtVars == <<fmtArgs, fmtCall>>
mgrVars == <<Seqs, splitter, formatting, mgrCall>>
batchVars == <<batch, pending>>

(***************************************************************************)
(* Bounds of the model.                                                    *)
(***************************************************************************)
\* Width of the modelled machine int (Go's int is 32 or 64 bits wide).
IntBits == 4
\* Longest file name the Splitter harness draws.
MaxNameLen == 3
\* Longest digit-run the formatter harness draws.
MaxDigitsLen == 11
\* Largest frame the Seq harness draws, beside the ends of the int range.
MaxFrame == 5

(***************************************************************************)
(* Machine integers.                                                       *)
(***************************************************************************)
MaxInt == 2 ^ (IntBits - 1) - 1
MinInt == 0 - 2 ^ (IntBits - 1)
Ints == MinInt .. MaxInt
\* Go's signed arithmetic wraps around on overflow.
Wrap(x) == ((x - MinInt) % (2 ^ IntBits)) + MinInt

(***************************************************************************)
(* Strings as byte sequences.                                              *)
(***************************************************************************)
DigitChars == <<"0", "1", "2", "3", "4", "5", "6", "7", "8", "9">>
IsDigit(c) == \E i \in 1 .. 10 : DigitChars[i] = c
DigitVal(c) == (CHOOSE i \in 1 .. 10 : DigitChars[i] = c) - 1

\* The byte value of a character (ASCII), the order sort.Strings compares by.
ByteOf(c) ==
    CASE c = "\n" -> 10
      [] c = " " -> 32
      [] c = "#" -> 35
      [] c = "$" -> 36
      [] c = "%" -> 37
      [] c = "-" -> 45
      [] IsDigit(c) -> 48 + DigitVal(c)
      [] c = "F" -> 70
      [] c = "a" -> 97
      [] c = "b" -> 98
      [] c = "d" -> 100

\* a < b for Go strings: byte-wise lexicographic order.
RECURSIVE StrLess(_, _)
StrLess(a, b) ==
    IF b = <<>> THEN FALSE
    ELSE IF a = <<>> THEN TRUE
    ELSE IF ByteOf(Head(a)) # ByteOf(Head(b)) THEN ByteOf(Head(a)) < ByteOf(Head(b))
    ELSE StrLess(Tail(a), Tail(b))

\* strings.Repeat(c, n)
RECURSIVE Repeat(_, _)
Repeat(c, n) == IF n <= 0 THEN <<>> ELSE <<c>> \o Repeat(c, n - 1)

\* strconv.Itoa / fmt's %d: the decimal numeral of an integer.
RECURSIVE UItoa(_)
UItoa(n) ==
    IF n < 10 THEN <<DigitChars[n + 1]>>
    ELSE UItoa(n \div 10) \o <<DigitChars[(n % 10) + 1]>>
Itoa(n) == IF n < 0 THEN <<"-">> \o UItoa(0 - n) ELSE UItoa(n)

(***************************************************************************)
(* Range                                                                   *)
(***************************************************************************)
NewRange(f) == [Min |-> f, Max |-> f]

\* Extend comparing against Max+2 instead of Max+1.
ExtendOffByOne(r, f) ==
    IF f # Wrap(r.Max + 2)
        THEN [r |-> r, ok |-> FALSE]
        ELSE [r |-> [r EXCEPT !.Max = f], ok |-> TRUE]
\* Range.Extend: the (possibly changed) range and the bool it returns.
Extend(r, f) ==
    IF f # Wrap(r.Max + 1)
        THEN [r |-> r, ok |-> FALSE]
        ELSE [r |-> [r EXCEPT !.Max = f], ok |-> TRUE]

\* Range.String
RangeString(r) ==
    IF r.Min = r.Max THEN Itoa(r.Min)
    ELSE Itoa(r.Min) \o <<"-">> \o Itoa(r.Max)

(***************************************************************************)
(* Seq                                                                     *)
(***************************************************************************)
ErrNil == "nil"
ErrNotSeqfile == "not a sequence file"
ErrFrameExists == "frame exists"
ErrNegativeFrame == "nagative frame"

NewSeq == {}

\* AddFrame without the membership check: a re-add is silently accepted.
AddFrameSilent(fs, f) ==
    IF f < 0 THEN [frames |-> fs, err |-> ErrNegativeFrame]
    ELSE [frames |-> fs \cup {f}, err |-> ErrNil]
\* Seq.AddFrame: the frame set after the call and the error returned.
AddFrame(fs, f) ==
    IF f < 0 THEN [frames |-> fs, err |-> ErrNegativeFrame]
    ELSE IF f \in fs THEN [frames |-> fs, err |-> ErrFrameExists]
    ELSE [frames |-> fs \cup {f}, err |-> ErrNil]

\* sort.Ints of the keys of the frame map, whatever order the map yields them in.
RECURSIVE SortInts(_)
SortInts(S) ==
    IF S = {} THEN <<>>
    ELSE LET m == CHOOSE x \in S : \A y \in S : x <= y
         IN <<m>> \o SortInts(S \ {m})

\* The loop of Seq.Ranges: r is the range appended last (rngs holds pointers,
\* so extending r changes the last element of rngs).
RECURSIVE RangesLoop(_, _)
RangesLoop(rngs, rest) ==
    IF rest = <<>> THEN rngs
    ELSE LET n == Len(rngs)
             e == Extend(rngs[n], Head(rest))
         IN IF e.ok
                THEN RangesLoop([rngs EXCEPT ![n] = e.r], Tail(rest))
                ELSE RangesLoop(Append(rngs, NewRange(Head(rest))), Tail(rest))

Ranges(fs) ==
    IF Cardinality(fs) = 0 THEN <<>>
    ELSE LET sorted == SortInts(fs)
         IN RangesLoop(<<NewRange(sorted[1])>>, Tail(sorted))

\* Seq.String
RECURSIVE SeqStringLoop(_, _)
SeqStringLoop(str, rngs) ==
    IF rngs = <<>> THEN str
    ELSE SeqStringLoop((IF str # <<>> THEN str \o <<" ">> ELSE str)
                            \o RangeString(Head(rngs)),
                       Tail(rngs))
SeqString(fs) == SeqStringLoop(<<>>, Ranges(fs))

(***************************************************************************)
(* Splitter                                                                *)
(*                                                                         *)
(* reDefaultSplit is (.*\D)*(\d+)(.*?)$ with Go's regexp semantics: the    *)
(* match is the leftmost one, among those the one a backtracking matcher   *)
(* finds first (greedy operators try the longest first, lazy ones the      *)
(* shortest), `.` matches any character but "\n", \D any character but a   *)
(* decimal digit, $ only the end of the text, and a group under * reports  *)
(* its last iteration.                                                     *)
(***************************************************************************)
NoMatch == [ok |-> FALSE]

\* How far `.*` can reach from pos: the run of characters other than "\n".
RECURSIVE DotRun(_, _)
DotRun(s, pos) ==
    IF pos > Len(s) \/ s[pos] = "\n" THEN 0 ELSE 1 + DotRun(s, pos + 1)

\* How far \d+ can reach from pos: the run of decimal digits.
RECURSIVE DigitRun(_, _)
DigitRun(s, pos) ==
    IF pos > Len(s) \/ ~IsDigit(s[pos]) THEN 0 ELSE 1 + DigitRun(s, pos + 1)

\* (\d+)(.*?)$ at pos with n digits taken (greedy: n counts down); the lazy
\* .*? grows until $ matches, which it can when no "\n" lies before the end.
RECURSIVE MatchDigits(_, _, _, _)
MatchDigits(s, pos, n, g1) ==
    IF n < 1 THEN NoMatch
    ELSE IF pos + n + DotRun(s, pos + n) = Len(s) + 1
        THEN [ok |-> TRUE, m1 |-> g1,
              m2 |-> SubSeq(s, pos, pos + n - 1),
              m3 |-> SubSeq(s, pos + n, Len(s))]
        ELSE MatchDigits(s, pos, n - 1, g1)

\* (.*\D)* at pos, g1 being the text of the last iteration so far: one more
\* iteration whose .* takes k characters (greedy: k counts down), else the
\* rest of the expression.
RECURSIVE MatchStar(_, _, _)
RECURSIVE MatchIter(_, _, _, _)
MatchIter(s, pos, k, g1) ==
    IF k < 0 THEN MatchDigits(s, pos, DigitRun(s, pos), g1)
    ELSE IF pos + k <= Len(s) /\ ~IsDigit(s[pos + k])
        THEN LET r == MatchStar(s, pos + k + 1, SubSeq(s, pos, pos + k))
             IN IF r.ok THEN r ELSE MatchIter(s, pos, k - 1, g1)
        ELSE MatchIter(s, pos, k - 1, g1)
MatchStar(s, pos, g1) == MatchIter(s, pos, DotRun(s, pos), g1)

\* reDefaultSplit.FindStringSubmatch: the match at the leftmost start; a
\* group that took no part in the match is reported as "".
RECURSIVE FindFrom(_, _)
FindFrom(s, start) ==
    IF start > Len(s) + 1 THEN NoMatch
    ELSE LET r == MatchStar(s, start, <<>>)
         IN IF r.ok THEN r ELSE FindFrom(s, start + 1)
reDefaultSplit(s) == FindFrom(s, 1)

\* A caller's own expression handed to NewSplitter, ^(\D*?)(-?\d+)(\D*)$: a
\* name with exactly one digit-run, a "-" right before it going to the digits.
reSignedSplit(s) ==
    LET first == CHOOSE i \in 1 .. Len(s) + 1 : (i = Len(s) + 1 \/ IsDigit(s[i]))
                      /\ \A j \in 1 .. i - 1 : ~IsDigit(s[j])
        n == DigitRun(s, first)
        signed == first > 1 /\ s[first - 1] = "-"
        from == IF signed THEN first - 1 ELSE first
    IN IF n = 0 \/ \E j \in first + n .. Len(s) : IsDigit(s[j]) THEN NoMatch
       ELSE [ok |-> TRUE, m1 |-> SubSeq(s, 1, from - 1),
             m2 |-> SubSeq(s, from, first + n - 1),
             m3 |-> SubSeq(s, first + n, Len(s))]

\* Splitter.Split, for the expression the Splitter holds.
Split(re, name) ==
    LET m == IF re = "default" THEN reDefaultSplit(name) ELSE reSignedSplit(name)
    IN IF ~m.ok
           THEN [pre |-> <<>>, digits |-> <<>>, post |-> <<>>, err |-> ErrNotSeqfile]
           ELSE [pre |-> m.m1, digits |-> m.m2, post |-> m.m3, err |-> ErrNil]

(***************************************************************************)
(* Formatters                                                              *)
(***************************************************************************)
FmtSharp(pre, digits, post) == pre \o Repeat("#", Len(digits)) \o post

FmtDollarF(pre, digits, post) == pre \o <<"$", "F">> \o Itoa(Len(digits)) \o post

\* The formatter as it was before the "%0<n>d" form: pre + "%d" + n + post.
FmtPercentDOld(pre, digits, post) == pre \o <<"%", "d">> \o Itoa(Len(digits)) \o post
FmtPercentD(pre, digits, post) ==
    pre \o <<"%", "0">> \o Itoa(Len(digits)) \o <<"d">> \o post

Formatters == {"Sharp", "DollarF", "PercentD"}

\* A call of the formatter a Manager holds (or a harness picked).
Format(fn, pre, digits, post) ==
    CASE fn = "Sharp" -> FmtSharp(pre, digits, post)
      [] fn = "DollarF" -> FmtDollarF(pre, digits, post)
      [] fn = "PercentD" -> FmtPercentD(pre, digits, post)

(***************************************************************************)
(* Manager                                                                 *)
(***************************************************************************)
\* The value of a run of decimal digits, saturating just above limit.
RECURSIVE Saturating(_, _, _)
Saturating(ds, acc, limit) ==
    IF ds = <<>> THEN acc
    ELSE LET v == acc * 10 + DigitVal(Head(ds))
         IN Saturating(Tail(ds), IF v > limit THEN limit + 1 ELSE v, limit)

\* frame, _ := strconv.Atoi(digits): an optional sign and decimal digits; 0 on
\* a syntax error, and on a value out of the int's range the nearest int (Atoi
\* reports the range error beside it, which Add drops).
Atoi(ds) ==
    LET sign == ds # <<>> /\ ds[1] \in {"+", "-"}
        neg == ds # <<>> /\ ds[1] = "-"
        body == IF sign THEN Tail(ds) ELSE ds
    IN IF body = <<>> \/ \E i \in 1 .. Len(body) : ~IsDigit(body[i]) THEN 0
       ELSE IF neg
           THEN LET v == Saturating(body, 0, MaxInt + 1)
                IN IF v > MaxInt + 1 THEN MinInt ELSE 0 - v
           ELSE LET v == Saturating(body, 0, MaxInt)
                IN IF v > MaxInt THEN MaxInt ELSE v

\* make(map[string]*Seq)
EmptyMap == [n \in {} |-> NewSeq]

\* Add always storing a new Seq under the identity, in place of the one held.
ManagerAddOverwrite(sqs, re, fn, file) ==
    LET sp == Split(re, file)
        name == Format(fn, sp.pre, sp.digits, sp.post)
        frame == Atoi(sp.digits)
        a == AddFrame(NewSeq, frame)
    IN IF sp.err # ErrNil
           THEN [Seqs |-> sqs, err |-> sp.err, name |-> <<>>, frame |-> 0]
           ELSE [Seqs |-> (name :> a.frames) @@ sqs, err |-> a.err,
                 name |-> name, frame |-> frame]
\* Manager.Add, on the map sqs of a Manager holding splitter re and formatter
\* fn: the map after the call, the error returned and the locals name, frame.
ManagerAdd(sqs, re, fn, file) ==
    LET sp == Split(re, file)
        name == Format(fn, sp.pre, sp.digits, sp.post)
        frame == Atoi(sp.digits)
        withSeq == IF name \in DOMAIN sqs THEN sqs ELSE (name :> NewSeq) @@ sqs
        a == AddFrame(withSeq[name], frame)
    IN IF sp.err # ErrNil
           THEN [Seqs |-> sqs, err |-> sp.err, name |-> <<>>, frame |-> 0]
           ELSE [Seqs |-> [withSeq EXCEPT ![name] = a.frames], err |-> a.err,
                 name |-> name, frame |-> frame]

\* sort.Strings of the keys of a map, whatever order the map yields them in.
RECURSIVE SortStrings(_)
SortStrings(S) ==
    IF S = {} THEN <<>>
    ELSE LET m == CHOOSE x \in S : \A y \in S : x = y \/ StrLess(x, y)
         IN <<m>> \o SortStrings(S \ {m})

\* SeqNames sorting in descending order.
RECURSIVE SortStringsDescending(_)
SortStringsDescending(S) ==
    IF S = {} THEN <<>>
    ELSE LET m == CHOOSE x \in S : \A y \in S : x = y \/ StrLess(y, x)
         IN <<m>> \o SortStringsDescending(S \ {m})
SeqNamesDescending(sqs) == SortStringsDescending(DOMAIN sqs)
\* Manager.SeqNames
SeqNames(sqs) == SortStrings(DOMAIN sqs)

\* Manager.String
RECURSIVE ManagerStringLoop(_, _, _)
ManagerStringLoop(str, names, sqs) ==
    IF names = <<>> THEN str
    ELSE ManagerStringLoop((IF str # <<>> THEN str \o <<"\n">> ELSE str)
                                \o Head(names) \o <<" ">> \o SeqString(sqs[Head(names)]),
                           Tail(names), sqs)
ManagerString(sqs) == ManagerStringLoop(<<>>, SeqNames(sqs), sqs)

(***************************************************************************)
(* Idle values of the harnesses a specification does not exercise.         *)
(***************************************************************************)
NoCall == [op |-> "none"]
RangeIdle == rng = NewRange(0) /\ rngCall = NoCall
SeqIdle == frames = NewSeq /\ seqCall = NoCall
SplitIdle == fname = <<>> /\ splitCall = NoCall
FmtIdle == fmtArgs = [pre |-> <<>>, digits |-> <<>>, post |-> <<>>] /\ fmtCall = NoCall
MgrIdle == Seqs = EmptyMap /\ splitter = "default" /\ formatting = "Sharp" /\ mgrCall = NoCall
BatchIdle == batch = {} /\ pending = {}

(***************************************************************************)
(* Range harness: a Range made by NewRange(f0), then any Extend calls.     *)
(***************************************************************************)
RangeInit ==
    /\ \E f0 \in Ints :
        /\ rng = NewRange(f0)
        /\ rngCall = [op |-> "NewRange", f |-> f0]
    /\ SeqIdle /\ SplitIdle /\ FmtIdle /\ MgrIdle /\ BatchIdle

RangeExtend ==
    \E f \in Ints :
        LET e == Extend(rng, f)
        IN /\ rng' = e.r
           /\ rngCall' = [op |-> "Extend", f |-> f, ret |-> e.ok, before |-> rng]
           /\ UNCHANGED <<seqVars, splitVars, fmtVars, mgrVars, batchVars>>

RangeNext == RangeExtend
SpecRange == RangeInit /\ [][RangeNext]_vars

(***************************************************************************)
(* Seq harness: a Seq made by NewSeq(), then any AddFrame and Ranges calls.*)
(***************************************************************************)
SeqInit ==
    /\ frames = NewSeq
    /\ seqCall = NoCall
    /\ RangeIdle /\ SplitIdle /\ FmtIdle /\ MgrIdle /\ BatchIdle

\* The frames passed to AddFrame: the small ones and the ends of the int range.
FrameInputs == {MinInt, 0 - 1} \cup (0 .. MaxFrame) \cup {MaxInt - 1, MaxInt}

SeqAddFrame ==
    \E f \in FrameInputs :
        LET a == AddFrame(frames, f)
        IN /\ frames' = a.frames
           /\ seqCall' = [op |-> "AddFrame", f |-> f, err |-> a.err, before |-> frames]
           /\ UNCHANGED <<rangeVars, splitVars, fmtVars, mgrVars, batchVars>>

SeqRanges ==
    /\ seqCall' = [op |-> "Ranges", ret |-> Ranges(frames)]
    /\ UNCHANGED <<frames, rangeVars, splitVars, fmtVars, mgrVars, batchVars>>

SeqNext == SeqAddFrame \/ SeqRanges
SpecSeq == SeqInit /\ [][SeqNext]_vars

(***************************************************************************)
(* Claims about Range and Seq.                                             *)
(***************************************************************************)
\* C7 (as claimed): after Extend(f) on a Range made by NewRange, the call
\* returned true exactly when f = Max + 1 (as integers), a true return set
\* Max to f, a false return left the Range as it was, Min never changes and
\* Min <= Max.
C7_ExtendContract ==
    rngCall.op = "Extend" =>
        /\ rngCall.ret = (rngCall.f = rngCall.before.Max + 1)
        /\ rngCall.ret => rng.Max = rngCall.f
        /\ ~rngCall.ret => rng = rngCall.before
        /\ rng.Min = rngCall.before.Min
        /\ rng.Min <= rng.Max

\* The set of integers a list of ranges covers.
Covered(rngs) == UNION {rngs[i].Min .. rngs[i].Max : i \in 1 .. Len(rngs)}

\* C1: Ranges() is strictly ascending by Min, its ranges are non-empty and
\* disjoint and cover exactly the frames held, consecutive ranges are not
\* adjacent (r'.Min > r.Max + 1), and an empty Seq yields the empty list.
C1_RangesCanonical ==
    seqCall.op = "Ranges" =>
        LET rs == seqCall.ret
        IN /\ \A i \in 1 .. Len(rs) : rs[i].Min <= rs[i].Max
           /\ \A i \in 1 .. Len(rs) - 1 :
                /\ rs[i].Min < rs[i + 1].Min
                /\ rs[i + 1].Min > rs[i].Max + 1
           /\ Covered(rs) = frames
           /\ \A f \in frames : Cardinality({i \in 1 .. Len(rs) : f \in rs[i].Min .. rs[i].Max}) = 1
           /\ (frames = {}) => rs = <<>>

\* C1 witness: Ranges() was called on a Seq holding the largest int and a
\* gap, and returned a multi-frame range and a later one.
C1_Witness ==
    /\ seqCall.op = "Ranges"
    /\ MaxInt \in frames
    /\ Len(seqCall.ret) >= 2
    /\ seqCall.ret[1].Min < seqCall.ret[1].Max

\* C3: AddFrame(f) returns ErrNegativeFrame when f < 0, ErrFrameExists when
\* f >= 0 is already held, and nil otherwise, adding f; on either error the
\* frame set is unchanged.
C3_AddFrameOutcome ==
    seqCall.op = "AddFrame" =>
        LET f == seqCall.f
            old == seqCall.before
        IN /\ f < 0 => (seqCall.err = ErrNegativeFrame /\ frames = old)
           /\ (f >= 0 /\ f \in old) => (seqCall.err = ErrFrameExists /\ frames = old)
           /\ (f >= 0 /\ f \notin old) => (seqCall.err = ErrNil /\ frames = old \cup {f})
           /\ seqCall.err \in {ErrNegativeFrame, ErrFrameExists, ErrNil}

\* C3 witness: a re-add of a held frame was rejected.
C3_Witness ==
    /\ seqCall.op = "AddFrame"
    /\ seqCall.err = ErrFrameExists
    /\ Cardinality(frames) >= 2

(***************************************************************************)
(* Splitter harness: the default Splitter on every short file name.        *)
(***************************************************************************)
StrsUpTo(A, n) == UNION {[1 .. k -> A] : k \in 0 .. n}

NameAlphabet == {"a", "#", "0", "1", "\n"}
Names == StrsUpTo(NameAlphabet, MaxNameLen)

SplitInit ==
    /\ fname \in Names
    /\ splitCall = NoCall
    /\ RangeIdle /\ SeqIdle /\ FmtIdle /\ MgrIdle /\ BatchIdle

SplitSplit ==
    /\ splitCall = NoCall
    /\ splitCall' = [op |-> "Split", ret |-> Split("default", fname)]
    /\ UNCHANGED <<fname, rangeVars, seqVars, fmtVars, mgrVars, batchVars>>

SplitNext == SplitSplit
SpecSplit == SplitInit /\ [][SplitNext]_vars

HasDigit(s) == \E i \in 1 .. Len(s) : IsDigit(s[i])

\* C4 (as claimed): Split fails with ErrNotSeqfile exactly when the name has
\* no decimal digit; otherwise pre + digits + post is the name, digits is a
\* non-empty run of digits, pre is empty or ends in a non-digit, and post
\* holds no digit.
C4_SplitRightmostRun ==
    splitCall.op = "Split" =>
        LET r == splitCall.ret
        IN /\ (r.err = ErrNotSeqfile) = ~HasDigit(fname)
           /\ r.err \in {ErrNil, ErrNotSeqfile}
           /\ r.err = ErrNil =>
                /\ r.pre \o r.digits \o r.post = fname
                /\ r.digits # <<>>
                /\ \A i \in 1 .. Len(r.digits) : IsDigit(r.digits[i])
                /\ r.pre = <<>> \/ ~IsDigit(r.pre[Len(r.pre)])
                /\ ~HasDigit(r.post)

(***************************************************************************)
(* Formatter harness: the three formatters on drawn (pre, digits, post).   *)
(***************************************************************************)
PartAlphabet == {"a", "#", "$", "9"}
FmtParts == StrsUpTo(PartAlphabet, 1)
FmtDigitRuns == {Repeat(c, k) : c \in {"0", "7"}, k \in 0 .. MaxDigitsLen}

FmtInit ==
    /\ fmtArgs \in [pre : FmtParts, digits : FmtDigitRuns, post : FmtParts]
    /\ fmtCall = NoCall
    /\ RangeIdle /\ SeqIdle /\ SplitIdle /\ MgrIdle /\ BatchIdle

FmtFormat ==
    \E fn \in Formatters :
        /\ fmtCall' = [op |-> fn,
                       ret |-> Format(fn, fmtArgs.pre, fmtArgs.digits, fmtArgs.post)]
        /\ UNCHANGED <<fmtArgs, rangeVars, seqVars, splitVars, mgrVars, batchVars>>

FmtNext == FmtFormat
SpecFmt == FmtInit /\ [][FmtNext]_vars

\* The number a decimal numeral denotes (most significant digit first).
RECURSIVE NumeralValue(_)
NumeralValue(ds) ==
    IF ds = <<>> THEN 0
    ELSE NumeralValue(SubSeq(ds, 1, Len(ds) - 1)) * 10 + DigitVal(ds[Len(ds)])

\* ds is the decimal numeral of n: digits only, no leading zero, value n.
IsDecimalOf(ds, n) ==
    /\ ds # <<>>
    /\ \A i \in 1 .. Len(ds) : IsDigit(ds[i])
    /\ Len(ds) > 1 => ds[1] # "0"
    /\ NumeralValue(ds) = n

\* out is pre, then mid, then post, for a mid that satisfies P.
Framed(out, pre, post, P(_)) ==
    /\ Len(out) >= Len(pre) + Len(post)
    /\ SubSeq(out, 1, Len(pre)) = pre
    /\ SubSeq(out, Len(out) - Len(post) + 1, Len(out)) = post
    /\ P(SubSeq(out, Len(pre) + 1, Len(out) - Len(post)))

\* C5: with n the length of digits, FmtSharp gives pre, n "#" characters,
\* post; FmtDollarF gives pre, "$F", the decimal numeral of n, post;
\* FmtPercentD gives pre, "%0", the decimal numeral of n, "d", post; and the
\* result is the same for any other digits of the same length.
C5_FormatterShape ==
    fmtCall.op \in Formatters =>
        LET n == Len(fmtArgs.digits)
            out == fmtCall.ret
            Sharps(mid) == Len(mid) = n /\ \A i \in 1 .. n : mid[i] = "#"
            Dollar(mid) ==
                /\ Len(mid) > 2
                /\ mid[1] = "$" /\ mid[2] = "F"
                /\ IsDecimalOf(SubSeq(mid, 3, Len(mid)), n)
            Percent(mid) ==
                /\ Len(mid) > 3
                /\ mid[1] = "%" /\ mid[2] = "0" /\ mid[Len(mid)] = "d"
                /\ IsDecimalOf(SubSeq(mid, 3, Len(mid) - 1), n)
        IN /\ fmtCall.op = "Sharp" => Framed(out, fmtArgs.pre, fmtArgs.post, Sharps)
           /\ fmtCall.op = "DollarF" => Framed(out, fmtArgs.pre, fmtArgs.post, Dollar)
           /\ fmtCall.op = "PercentD" => Framed(out, fmtArgs.pre, fmtArgs.post, Percent)
           /\ \A ds \in FmtDigitRuns :
                Len(ds) = n => Format(fmtCall.op, fmtArgs.pre, ds, fmtArgs.post) = out

\* C5 witness: FmtPercentD was called with a digit-run of ten or more digits
\* (a two-digit width) between a non-empty pre and post.
C5_Witness ==
    /\ fmtCall.op = "PercentD"
    /\ Len(fmtArgs.digits) >= 10
    /\ fmtArgs.pre # <<>> /\ fmtArgs.post # <<>>

(***************************************************************************)
(* Manager harness: NewManager(splitter, formatting), then any Add,        *)
(* SeqNames and String calls on file names of a directory listing.         *)
(***************************************************************************)
Splitters == {"default", "signed"}

FileNames ==
    { <<"a", "1">>, <<"a", "2">>, <<"a", "4">>, <<"a", "0", "1">>,
      <<"a", "9", "8">>, <<"a", "9", "9">>, <<"b", "1">>,
      <<"#", "1">>, <<"1", "1">>, <<"a", "-", "1">>, <<"a", "b">> }

MgrInit ==
    /\ Seqs = EmptyMap
    /\ splitter \in Splitters
    /\ formatting \in Formatters
    /\ mgrCall = [op |-> "NewManager"]
    /\ RangeIdle /\ SeqIdle /\ SplitIdle /\ FmtIdle /\ BatchIdle

MgrAdd ==
    \E file \in FileNames :
        LET a == ManagerAdd(Seqs, splitter, formatting, file)
        IN /\ Seqs' = a.Seqs
           /\ mgrCall' = [op |-> "Add", fname |-> file, err |-> a.err,
                          name |-> a.name, frame |-> a.frame, before |-> Seqs]
           /\ UNCHANGED <<splitter, formatting, rangeVars, seqVars, splitVars,
                          fmtVars, batchVars>>

MgrSeqNames ==
    /\ mgrCall' = [op |-> "SeqNames", ret |-> SeqNames(Seqs)]
    /\ UNCHANGED <<Seqs, splitter, formatting, rangeVars, seqVars, splitVars,
                   fmtVars, batchVars>>

MgrString ==
    /\ mgrCall' = [op |-> "String", ret |-> ManagerString(Seqs)]
    /\ UNCHANGED <<Seqs, splitter, formatting, rangeVars, seqVars, splitVars,
                   fmtVars, batchVars>>

Next == MgrAdd \/ MgrSeqNames \/ MgrString
Spec == MgrInit /\ [][Next]_vars

\* The elements of a sequence of strings joined by a separator.
RECURSIVE Join(_, _)
Join(strs, sep) ==
    IF Len(strs) = 0 THEN <<>>
    ELSE IF Len(strs) = 1 THEN strs[1]
    ELSE Join(SubSeq(strs, 1, Len(strs) - 1), sep) \o sep \o strs[Len(strs)]

\* A range rendered as "min" or "min-max".
RangeText(r) == IF r.Min = r.Max THEN UItoa(r.Min) ELSE UItoa(r.Min) \o <<"-">> \o UItoa(r.Max)

\* C2: String() is one line per key of Seqs, in strictly ascending byte order
\* of the keys (the order of SeqNames()), each line the key, a space and the
\* sequence's Ranges() rendered as "min" or "min-max" and joined by single
\* spaces; the lines are joined by "\n" and no newline ends the text.
C2_StringLayout ==
    mgrCall.op = "String" =>
        LET names == SeqNames(Seqs)
            line(n) == n \o <<" ">> \o
                       Join([i \in 1 .. Len(Ranges(Seqs[n])) |-> RangeText(Ranges(Seqs[n])[i])],
                            <<" ">>)
            out == mgrCall.ret
        IN /\ Len(names) = Cardinality(DOMAIN Seqs)
           /\ {names[i] : i \in 1 .. Len(names)} = DOMAIN Seqs
           /\ \A i \in 1 .. Len(names) - 1 : StrLess(names[i], names[i + 1])
           /\ out = Join([i \in 1 .. Len(names) |-> line(names[i])], <<"\n">>)
           /\ out = <<>> \/ out[Len(out)] # "\n"

\* C2 witness: String() was called on a Manager holding three identities or
\* more, one of them with a multi-frame range followed by another range.
C2_Witness ==
    /\ mgrCall.op = "String"
    /\ Cardinality(DOMAIN Seqs) >= 3
    /\ \E n \in DOMAIN Seqs :
        /\ Len(Ranges(Seqs[n])) >= 2
        /\ Ranges(Seqs[n])[1].Min < Ranges(Seqs[n])[1].Max

\* C8 (as claimed): under the default Splitter, the frame Add passes to
\* AddFrame for an accepted name is the decimal value of the name's
\* digit-run, so names of one identity with different digit-run values are
\* held as different frames.
C8_FrameIsDigitRunValue ==
    (mgrCall.op = "Add" /\ splitter = "default" /\ mgrCall.err # ErrNotSeqfile) =>
        LET sp == Split(splitter, mgrCall.fname)
        IN /\ mgrCall.frame = NumeralValue(sp.digits)
           /\ mgrCall.frame >= 0
           /\ NumeralValue(sp.digits) \in Seqs[mgrCall.name]

\* C10 (as claimed): an Add that returns an error leaves Seqs as it was, and
\* every sequence registered in Seqs holds at least one frame.
C10_FailedAddChangesNothing ==
    /\ (mgrCall.op = "Add" /\ mgrCall.err # ErrNil) => Seqs = mgrCall.before
    /\ \A n \in DOMAIN Seqs : Seqs[n] # {}

(***************************************************************************)
(* Batch harness: a fresh Manager ingests a set of file names, each once,  *)
(* in any order.                                                           *)
(***************************************************************************)
\* Most file names in a batch.
MaxBatch == 3

BatchInit ==
    /\ batch \in {b \in SUBSET FileNames : Cardinality(b) <= MaxBatch}
    /\ pending = batch
    /\ Seqs = EmptyMap
    /\ splitter \in Splitters
    /\ formatting \in Formatters
    /\ mgrCall = [op |-> "NewManager"]
    /\ RangeIdle /\ SeqIdle /\ SplitIdle /\ FmtIdle

BatchAdd ==
    \E file \in pending :
        LET a == ManagerAdd(Seqs, splitter, formatting, file)
        IN /\ Seqs' = a.Seqs
           /\ pending' = pending \ {file}
           /\ mgrCall' = [op |-> "Add", fname |-> file, err |-> a.err,
                          name |-> a.name, frame |-> a.frame, before |-> Seqs]
           /\ UNCHANGED <<batch, splitter, formatting, rangeVars, seqVars,
                          splitVars, fmtVars>>

BatchNext == BatchAdd
SpecBatch == BatchInit /\ [][BatchNext]_vars

\* A fresh Manager's map after Add of each name of a list, in the list's order.
RECURSIVE AddAll(_, _, _, _)
AddAll(sqs, re, fn, files) ==
    IF files = <<>> THEN sqs
    ELSE AddAll(ManagerAdd(sqs, re, fn, Head(files)).Seqs, re, fn, Tail(files))

\* C9: once every name of a batch has been passed to Add, in whatever
\* order, SeqNames(), every sequence's Ranges() and String() are those of the
\* Manager that ingested the batch in sorted order.
C9_OrderIndependent ==
    pending = {} =>
        LET ref == AddAll(EmptyMap, splitter, formatting, SortStrings(batch))
        IN /\ SeqNames(Seqs) = SeqNames(ref)
           /\ \A n \in DOMAIN Seqs : Ranges(Seqs[n]) = Ranges(ref[n])
           /\ ManagerString(Seqs) = ManagerString(ref)

\* C9 witness: a batch was ingested whose last Add reported ErrFrameExists
\* (two names of one identity whose digit-runs parse to the same frame), and
\* another sequence was registered too.
C9_Witness ==
    /\ pending = {}
    /\ Cardinality(batch) = MaxBatch
    /\ mgrCall.op = "Add" /\ mgrCall.err = ErrFrameExists
    /\ Cardinality(DOMAIN Seqs) >= 2

\* C6 (as claimed): with the default Splitter and a standard formatter, two
\* accepted file names are accumulated into the same Seq exactly when they
\* split into the same prefix, the same suffix and digit-runs of equal length.
C6_SameSeqIffSameParts ==
    (pending = {} /\ splitter = "default" /\ Cardinality(batch) = 2) =>
        \A x, y \in batch :
            LET sx == Split(splitter, x)
                sy == Split(splitter, y)
            IN (x # y /\ sx.err = ErrNil /\ sy.err = ErrNil) =>
                ((Cardinality(DOMAIN Seqs) = 1) =
                    (sx.pre = sy.pre /\ sx.post = sy.post
                        /\ Len(sx.digits) = Len(sy.digits)))

====
